---- MODULE Spec2Model ----
(***************************************************************************)
(* Model of the Metal runtime in python/prickle/native/prickle_metal.cpp:  *)
(* the process-wide device context (device, cq, cb, ce, queue_cap,         *)
(* queue_size), the operations prickle_init, launch_kernel, submit_work    *)
(* and sync, and the command queue of the device they drive.               *)
(*                                                                         *)
(* The host calls block in cb->waitUntilScheduled() and                    *)
(* cb->waitUntilCompleted(); the host's position is pc:                    *)
(*   "idle"        between two operations                                  *)
(*   "wait_sched"  inside submit_work, blocked in waitUntilScheduled       *)
(*   "wait_done"   inside sync, blocked in waitUntilCompleted              *)
(*   "exited"      the process was terminated by exit(1) or by assert      *)
(* The device runs concurrently with the host and takes the committed      *)
(* command buffers of the queue in commit order.                           *)
(***************************************************************************)
EXTENDS Integers, Sequences, FiniteSets, TLC

\* ---- bounds of the model ------------------------------------------------
MaxCap == 2
MaxLaunches == 3
MaxThreadDim == 2
MaxGroupSize == 2
BufSize == 2
MaxByte == 1

\* ---- program constants --------------------------------------------------
SupportedSimdWidth == 32
NULL == 0

Capacities == 1..MaxCap
ThreadDims == 1..MaxThreadDim
\* A kernel handle, as far as launch_kernel looks at it: the lane width
\* (threadExecutionWidth) and the maximum thread-group size
\* (maxTotalThreadsPerThreadgroup) of its pipeline state.
Kernels == [simd : {SupportedSimdWidth, 2 * SupportedSimdWidth}, maxthreads : {MaxGroupSize}]
\* Which of the three object creations of a launch the framework refuses.
Failures == {"none", "cb", "ce", "pso"}
NoReq == [simd |-> 0, maxthreads |-> 0, tx |-> 0, ty |-> 0, tz |-> 0]
\* The arguments of copy: two host arrays and the handle of one MTL::Buffer.
Pointers == {"hostA", "hostB", "buf"}
\* What the pointers can address: the host arrays, the contents of the
\* buffer, the MTL::Buffer object itself, and the place contents() yields
\* when it is called on something that is no MTL::Buffer.
Regions == {"hostA", "hostB", "dev", "obj", "wild"}
Bytes == 0..MaxByte
Arrays == [1..BufSize -> Bytes]
ZeroArray == [i \in 1..BufSize |-> 0]
ZeroMem == [r \in Regions |-> ZeroArray]
NoTrip == [phase |-> "none", host |-> "none", data |-> ZeroArray]

VARIABLES
  device,      \* static MTL::Device *device            (NULL or 1)
  cq,          \* static MTL::CommandQueue *cq          (NULL or 1)
  cb,          \* static MTL::CommandBuffer *cb         (NULL or an index of buffers)
  ce,          \* static MTL::ComputeCommandEncoder *ce (NULL or an index of encoders)
  queue_cap,   \* static int64_t queue_cap
  queue_size,  \* static int64_t queue_size
  buffers,     \* every command buffer created so far: cmds, status, releases,
               \* by (the operation that committed it), dropped (the one that released it)
  encoders,    \* every encoder created so far: cb, ended, releases
  queue,       \* the command buffers committed to cq, in commit order
  executed,    \* the dispatches the device has executed, in execution order
  pc,          \* position of the host
  op,          \* the operation the host is in, or the last one that returned
  exit_msg,    \* the diagnostic of the fatal error, "" while running
  nlaunch,     \* number of launch_kernel calls so far; the n-th call issues dispatch n
  req,         \* the kernel and thread-group size of the last launch_kernel call
  mem,         \* the bytes of the host arrays and of the device buffer
  trip         \* the copy into the device buffer that the last copy call made or undid

vars == <<device, cq, cb, ce, queue_cap, queue_size, buffers, encoders, queue,
          executed, pc, op, exit_msg, nlaunch, req, mem, trip>>

\* ---- the Metal objects --------------------------------------------------
\* cq->commandBuffer(): a fresh buffer, MTL::CommandBufferStatusNotEnqueued.
NewCommandBuffer ==
  [cmds |-> <<>>, status |-> "NotEnqueued", releases |-> 0, by |-> "none", dropped |-> "none"]
\* cb->computeCommandEncoder(): a fresh encoder recording into buffer c.
NewEncoder(c) == [cb |-> c, ended |-> FALSE, releases |-> 0]
\* cb->release(), called by operation who
ReleaseBuffer(bufs, c, who) == [bufs EXCEPT ![c].releases = @ + 1, ![c].dropped = who]
\* ce->release()
ReleaseEncoder(encs, e) == [encs EXCEPT ![e].releases = @ + 1]
\* ce->endEncoding()
EndEncoding(encs, e) == [encs EXCEPT ![e].ended = TRUE]
\* cb->commit(), called by operation who
Commit(bufs, c, who) == [bufs EXCEPT ![c].status = "Committed", ![c].by = who]
\* ce->dispatchThreads(): dispatch d is recorded into the buffer of encoder e.
DispatchThreads(bufs, encs, e, d) == [bufs EXCEPT ![encs[e].cb].cmds = Append(@, d)]
\* cq was created with newCommandQueue(queue_cap): commandBuffer() blocks
\* while queue_cap buffers of the queue are uncompleted.
Uncompleted(bufs) == Cardinality({i \in DOMAIN bufs : bufs[i].status # "Completed"})

\* ---- prickle_init -------------------------------------------------------
\* ok: whether the system has a device and the queue can be created.
\* Variant: queue_cap is assigned outside the test of line 14.
prickle_init_Reconfigure(queue_capacity, ok) ==
  /\ pc = "idle"
  /\ op' = "init"
  /\ queue_cap' = queue_capacity
  /\ IF device = NULL
     THEN IF ok
          THEN /\ device' = 1
               /\ cq' = 1
               /\ UNCHANGED <<pc, exit_msg>>
          ELSE /\ pc' = "exited"
               /\ exit_msg' = "Failed to set up command queue"
               /\ UNCHANGED <<device, cq>>
     ELSE UNCHANGED <<device, cq, pc, exit_msg>>
  /\ UNCHANGED <<cb, ce, queue_size, buffers, encoders, queue, executed, nlaunch, req, mem, trip>>

prickle_init(queue_capacity, ok) ==
  /\ pc = "idle"
  /\ op' = "init"
  /\ IF device = NULL
     THEN IF ok
          THEN /\ device' = 1
               /\ queue_cap' = queue_capacity
               /\ cq' = 1
               /\ UNCHANGED <<pc, exit_msg>>
          ELSE /\ queue_cap' = queue_capacity
               /\ pc' = "exited"
               /\ exit_msg' = "Failed to set up command queue"
               /\ UNCHANGED <<device, cq>>
     ELSE UNCHANGED <<device, cq, queue_cap, pc, exit_msg>>
  /\ UNCHANGED <<cb, ce, queue_size, buffers, encoders, queue, executed, nlaunch, req, mem, trip>>

\* ---- launch_kernel ------------------------------------------------------
\* Variant: line 99 tests the status with == in place of !=.
NeedNewBuffer_Inverted == cb = NULL \/ buffers[cb].status = "NotEnqueued"
\* Variant: line 99 tests cb == nullptr only.
NeedNewBuffer_NullOnly == cb = NULL
\* The condition of line 99.
NeedNewBuffer == cb = NULL \/ buffers[cb].status # "NotEnqueued"
\* Variant: the assert of line 134 leaves thread_z out.
GroupSizeOk_TwoDims(k, tx, ty, tz) == tx * ty <= k.maxthreads
\* The condition of the assert in line 134.
GroupSizeOk(k, tx, ty, tz) == tx * ty * tz <= k.maxthreads
\* Variant: the test of lines 129-132 is missing.
SimdWidthOk_Any(k) == TRUE
\* The condition of line 129.
SimdWidthOk(k) == k.simd = SupportedSimdWidth
\* Variant: line 139 increments after the comparison (queue_size++ == queue_cap).
BatchFull_OffByOne(size) == size = queue_cap + 1
\* The condition of line 139, on the incremented queue_size.
BatchFull(size) == size = queue_cap

launch_kernel(k, tx, ty, tz, fail) ==
  /\ pc = "idle"
  /\ nlaunch < MaxLaunches
  \* cq->commandBuffer() blocks while the queue has queue_cap uncompleted buffers
  /\ (NeedNewBuffer /\ cq # NULL) => Uncompleted(buffers) < queue_cap
  /\ op' = "launch"
  /\ nlaunch' = nlaunch + 1
  /\ req' = [simd |-> k.simd, maxthreads |-> k.maxthreads, tx |-> tx, ty |-> ty, tz |-> tz]
  /\ UNCHANGED <<device, cq, queue_cap, executed, mem, trip>>
  /\ LET d == nlaunch + 1
         \* lines 99-106
         cbFails == NeedNewBuffer /\ (cq = NULL \/ fail = "cb")
         b1 == IF NeedNewBuffer /\ cb # NULL THEN ReleaseBuffer(buffers, cb, "launch") ELSE buffers
         b2 == IF NeedNewBuffer /\ ~cbFails THEN Append(b1, NewCommandBuffer) ELSE b1
         cb2 == IF NeedNewBuffer THEN (IF cbFails THEN NULL ELSE Len(b2)) ELSE cb
         \* lines 108-114
         ceFails == ce = NULL /\ fail = "ce"
         e2 == IF ce = NULL /\ ~ceFails THEN Append(encoders, NewEncoder(cb2)) ELSE encoders
         ce2 == IF ce = NULL THEN (IF ceFails THEN NULL ELSE Len(e2)) ELSE ce
         \* line 138
         b3 == DispatchThreads(b2, e2, ce2, d)
     IN  IF cbFails
         THEN /\ cb' = cb2
              /\ buffers' = b2
              /\ pc' = "exited"
              /\ exit_msg' = "Failed to set up command buffer"
              /\ UNCHANGED <<ce, queue_size, encoders, queue>>
         ELSE IF ceFails
         THEN /\ cb' = cb2
              /\ buffers' = b2
              /\ ce' = ce2
              /\ pc' = "exited"
              /\ exit_msg' = "Failed to set up compute command encoder"
              /\ UNCHANGED <<queue_size, encoders, queue>>
         ELSE IF fail = "pso" \/ ~SimdWidthOk(k) \/ ~GroupSizeOk(k, tx, ty, tz)
         THEN /\ cb' = cb2
              /\ buffers' = b2
              /\ ce' = ce2
              /\ encoders' = e2
              /\ pc' = "exited"
              /\ exit_msg' = IF fail = "pso" THEN "Error setting up compute pipeline state"
                             ELSE IF ~SimdWidthOk(k) THEN "Expected SIMD width of 32"
                             ELSE "Assertion failed"
              /\ UNCHANGED <<queue_size, queue>>
         ELSE /\ cb' = cb2
              /\ ce' = ce2
              /\ queue_size' = queue_size + 1
              /\ IF BatchFull(queue_size + 1)
                 THEN \* submit_work, lines 146-148
                      /\ encoders' = EndEncoding(e2, ce2)
                      /\ buffers' = Commit(b3, cb2, "launch")
                      /\ queue' = Append(queue, cb2)
                      /\ pc' = "wait_sched"
                 ELSE /\ encoders' = e2
                      /\ buffers' = b3
                      /\ UNCHANGED <<queue, pc>>
              /\ UNCHANGED exit_msg

\* ---- submit_work --------------------------------------------------------
\* Variant: line 145 tests cb in place of ce.
submit_work_Unguarded ==
  /\ pc = "idle"
  /\ op' = "submit"
  /\ IF cb # NULL
     THEN /\ encoders' = IF ce # NULL THEN EndEncoding(encoders, ce) ELSE encoders
          /\ buffers' = Commit(buffers, cb, "submit")
          /\ queue' = Append(queue, cb)
          /\ pc' = "wait_sched"
     ELSE UNCHANGED <<encoders, buffers, queue, pc>>
  /\ UNCHANGED <<device, cq, cb, ce, queue_cap, queue_size, executed, exit_msg, nlaunch, req, mem, trip>>

\* A direct call of submit_work, lines 145-148.
submit_work ==
  /\ pc = "idle"
  /\ op' = "submit"
  /\ IF ce # NULL
     THEN /\ encoders' = EndEncoding(encoders, ce)
          /\ buffers' = Commit(buffers, cb, "submit")
          /\ queue' = Append(queue, cb)
          /\ pc' = "wait_sched"
     ELSE UNCHANGED <<encoders, buffers, queue, pc>>
  /\ UNCHANGED <<device, cq, cb, ce, queue_cap, queue_size, executed, exit_msg, nlaunch, req, mem, trip>>

\* Variant: line 148 is missing, submit_work does not wait.
IsScheduled_NoWait(c) == TRUE
\* What cb->waitUntilScheduled() waits for.
IsScheduled(c) == buffers[c].status \in {"Scheduled", "Completed"}
\* Variant: line 158 calls waitUntilScheduled.
IsCompleted_Early(c) == buffers[c].status \in {"Scheduled", "Completed"}
\* What cb->waitUntilCompleted() waits for.
IsCompleted(c) == buffers[c].status = "Completed"

\* Variant: line 151 is missing, queue_size is not reset.
submit_scheduled_NoReset ==
  /\ pc = "wait_sched"
  /\ buffers[cb].status \in {"Scheduled", "Completed"}
  /\ encoders' = ReleaseEncoder(encoders, ce)
  /\ ce' = NULL
  /\ pc' = IF op = "sync" /\ cb # NULL THEN "wait_done" ELSE "idle"
  /\ UNCHANGED <<device, cq, cb, queue_cap, queue_size, buffers, queue, executed, op,
                 exit_msg, nlaunch, req, mem, trip>>

\* Variant: line 149 is missing, the encoder is dropped without release.
submit_scheduled_NoRelease ==
  /\ pc = "wait_sched"
  /\ buffers[cb].status \in {"Scheduled", "Completed"}
  /\ ce' = NULL
  /\ queue_size' = 0
  /\ pc' = IF op = "sync" /\ cb # NULL THEN "wait_done" ELSE "idle"
  /\ UNCHANGED <<device, cq, cb, queue_cap, buffers, encoders, queue, executed, op,
                 exit_msg, nlaunch, req, mem, trip>>

\* waitUntilScheduled returns, lines 148-151; then the caller goes on: sync
\* with line 157, launch_kernel and a direct call return.
submit_scheduled ==
  /\ pc = "wait_sched"
  /\ IsScheduled(cb)
  /\ encoders' = ReleaseEncoder(encoders, ce)
  /\ ce' = NULL
  /\ queue_size' = 0
  /\ pc' = IF op = "sync" /\ cb # NULL THEN "wait_done" ELSE "idle"
  /\ UNCHANGED <<device, cq, cb, queue_cap, buffers, queue, executed, op, exit_msg, nlaunch, req, mem, trip>>

\* ---- sync ---------------------------------------------------------------
\* Variant: line 156 is missing, sync waits without submitting.
sync_NoSubmit ==
  /\ pc = "idle"
  /\ op' = "sync"
  /\ pc' = IF cb # NULL THEN "wait_done" ELSE "idle"
  /\ UNCHANGED <<device, cq, cb, ce, queue_cap, queue_size, buffers, encoders, queue,
                 executed, exit_msg, nlaunch, req, mem, trip>>

\* A call of sync (or prickle_sync), lines 156-157 up to the first wait.
sync ==
  /\ pc = "idle"
  /\ op' = "sync"
  /\ IF ce # NULL
     THEN /\ encoders' = EndEncoding(encoders, ce)
          /\ buffers' = Commit(buffers, cb, "sync")
          /\ queue' = Append(queue, cb)
          /\ pc' = "wait_sched"
     ELSE /\ pc' = IF cb # NULL THEN "wait_done" ELSE "idle"
          /\ UNCHANGED <<encoders, buffers, queue>>
  /\ UNCHANGED <<device, cq, cb, ce, queue_cap, queue_size, executed, exit_msg, nlaunch, req, mem, trip>>

\* Variant: line 160 is missing, cb keeps the released buffer.
sync_completed_KeepBuffer ==
  /\ pc = "wait_done"
  /\ buffers[cb].status = "Completed"
  /\ buffers' = ReleaseBuffer(buffers, cb, "sync")
  /\ pc' = "idle"
  /\ UNCHANGED <<device, cq, cb, ce, queue_cap, queue_size, encoders, queue, executed, op,
                 exit_msg, nlaunch, req, mem, trip>>

\* waitUntilCompleted returns, lines 158-160.
sync_completed ==
  /\ pc = "wait_done"
  /\ IsCompleted(cb)
  /\ buffers' = ReleaseBuffer(buffers, cb, "sync")
  /\ cb' = NULL
  /\ pc' = "idle"
  /\ UNCHANGED <<device, cq, ce, queue_cap, queue_size, encoders, queue, executed, op, exit_msg, nlaunch, req, mem, trip>>

\* ---- copy and prickle_memcpy --------------------------------------------
\* ((MTL::Buffer*)p)->contents()
Contents(p) == IF p = "buf" THEN "dev" ELSE "wild"
\* p used as the address of the bytes themselves
Raw(p) == IF p = "buf" THEN "obj" ELSE p
\* Variant: line 89 tests k & 2.
DstIsBuffer_Bit1(k) == (k \div 2) % 2 = 1
\* k & 1 and k & 2
DstIsBuffer(k) == k % 2 = 1
SrcIsBuffer(k) == (k \div 2) % 2 = 1
\* memcpy(d, s, n) on arrays of BufSize bytes
prickle_memcpy(m, d, s, n) ==
  [m EXCEPT ![d] = [i \in 1..BufSize |-> IF i <= n THEN m[s][i] ELSE m[d][i]]]
\* The caller's contract of lines 81-88: k tells which arguments are buffers.
\* 0 both host, 1 destination on device, 2 source on device, 3 both device.
WellTyped(dst, src, k) ==
  /\ dst # src
  /\ k \in {1, 3} <=> dst = "buf"
  /\ k \in {2, 3} <=> src = "buf"

\* Variant: copy returns only when the device has completed all committed work.
copy_Waiting(dst, src, nbytes, k) ==
  /\ pc = "idle"
  /\ \A i \in DOMAIN queue : buffers[queue[i]].status = "Completed"
  /\ WellTyped(dst, src, k)
  /\ op' = "copy"
  /\ LET d == IF DstIsBuffer(k) THEN Contents(dst) ELSE Raw(dst)
         s == IF SrcIsBuffer(k) THEN Contents(src) ELSE Raw(src)
     IN  /\ mem' = prickle_memcpy(mem, d, s, nbytes)
         /\ trip' = IF k = 1 /\ nbytes = BufSize
                    THEN [phase |-> "in", host |-> src, data |-> mem[src]]
                    ELSE IF k = 2 /\ nbytes = BufSize /\ trip.phase = "in"
                    THEN [phase |-> "out", host |-> dst, data |-> trip.data]
                    ELSE NoTrip
  /\ UNCHANGED <<device, cq, cb, ce, queue_cap, queue_size, buffers, encoders, queue,
                 executed, pc, exit_msg, nlaunch, req>>

copy(dst, src, nbytes, k) ==
  /\ pc = "idle"
  /\ WellTyped(dst, src, k)
  /\ op' = "copy"
  /\ LET d == IF DstIsBuffer(k) THEN Contents(dst) ELSE Raw(dst)
         s == IF SrcIsBuffer(k) THEN Contents(src) ELSE Raw(src)
     IN  /\ mem' = prickle_memcpy(mem, d, s, nbytes)
         /\ trip' = IF k = 1 /\ nbytes = BufSize
                    THEN [phase |-> "in", host |-> src, data |-> mem[src]]
                    ELSE IF k = 2 /\ nbytes = BufSize /\ trip.phase = "in"
                    THEN [phase |-> "out", host |-> dst, data |-> trip.data]
                    ELSE NoTrip
  /\ UNCHANGED <<device, cq, cb, ce, queue_cap, queue_size, buffers, encoders, queue,
                 executed, pc, exit_msg, nlaunch, req>>

\* ---- the device ---------------------------------------------------------
\* The first committed buffer of the queue that has not completed.
QueueHead == CHOOSE i \in 1..Len(queue) :
          /\ buffers[queue[i]].status # "Completed"
          /\ \A j \in 1..(i - 1) : buffers[queue[j]].status = "Completed"
HasHead == \E i \in 1..Len(queue) : buffers[queue[i]].status # "Completed"
\* Number of dispatches of buffer c the device has executed.
Ran(c) == Cardinality({i \in 1..Len(executed) :
                         \E j \in 1..Len(buffers[c].cmds) : buffers[c].cmds[j] = executed[i]})

\* The kernel of dispatch d writes its marker into the shared device buffer.
KernelWrite(m, d) == [m EXCEPT !["dev"][1] = d]

\* The device schedules the next committed buffer, in commit order.
device_schedule ==
  /\ pc # "exited"
  /\ \E i \in 1..Len(queue) :
       /\ buffers[queue[i]].status = "Committed"
       /\ \A j \in 1..(i - 1) : buffers[queue[j]].status # "Committed"
       /\ buffers' = [buffers EXCEPT ![queue[i]].status = "Scheduled"]
  /\ UNCHANGED <<device, cq, cb, ce, queue_cap, queue_size, encoders, queue,
                 executed, pc, op, exit_msg, nlaunch, req, mem, trip>>

\* The device executes the next dispatch of the head buffer.
device_execute ==
  /\ pc # "exited"
  /\ HasHead
  /\ LET c == queue[QueueHead]
     IN  /\ buffers[c].status = "Scheduled"
         /\ Ran(c) < Len(buffers[c].cmds)
         /\ executed' = Append(executed, buffers[c].cmds[Ran(c) + 1])
         /\ mem' = KernelWrite(mem, buffers[c].cmds[Ran(c) + 1])
         /\ trip' = NoTrip
  /\ UNCHANGED <<device, cq, cb, ce, queue_cap, queue_size, buffers, encoders, queue,
                 pc, op, exit_msg, nlaunch, req>>

\* The head buffer completes once all its dispatches have executed.
device_complete ==
  /\ pc # "exited"
  /\ HasHead
  /\ LET c == queue[QueueHead]
     IN  /\ buffers[c].status = "Scheduled"
         /\ Ran(c) = Len(buffers[c].cmds)
         /\ buffers' = [buffers EXCEPT ![c].status = "Completed"]
  /\ UNCHANGED <<device, cq, cb, ce, queue_cap, queue_size, encoders, queue,
                 executed, pc, op, exit_msg, nlaunch, req, mem, trip>>

\* ---- the specification --------------------------------------------------
Init ==
  /\ device = NULL
  /\ cq = NULL
  /\ cb = NULL
  /\ ce = NULL
  /\ queue_cap = 0
  /\ queue_size = 0
  /\ buffers = <<>>
  /\ encoders = <<>>
  /\ queue = <<>>
  /\ executed = <<>>
  /\ pc = "idle"
  /\ op = "none"
  /\ exit_msg = ""
  /\ nlaunch = 0
  /\ req = NoReq
  /\ mem = ZeroMem
  /\ trip = NoTrip

Next ==
  \/ \E c \in Capacities, ok \in BOOLEAN : prickle_init(c, ok)
  \/ \E k \in Kernels, tx \in ThreadDims, ty \in ThreadDims, tz \in ThreadDims, f \in Failures :
       launch_kernel(k, tx, ty, tz, f)
  \/ submit_work
  \/ submit_scheduled
  \/ sync
  \/ sync_completed
  \/ device_schedule
  \/ device_execute
  \/ device_complete

Spec == Init /\ [][Next]_vars

\* Copies alone, on arbitrary contents of the host arrays and the buffer.
InitCopy ==
  /\ device = 1
  /\ cq = 1
  /\ cb = NULL
  /\ ce = NULL
  /\ queue_cap \in Capacities
  /\ queue_size = 0
  /\ buffers = <<>>
  /\ encoders = <<>>
  /\ queue = <<>>
  /\ executed = <<>>
  /\ pc = "idle"
  /\ op = "init"
  /\ exit_msg = ""
  /\ nlaunch = 0
  /\ req = NoReq
  /\ \E a \in Arrays, b \in Arrays, c \in Arrays :
       mem = [ZeroMem EXCEPT !["hostA"] = a, !["hostB"] = b, !["dev"] = c]
  /\ trip = NoTrip

NextCopy ==
  \E dst \in Pointers, src \in Pointers, n \in 0..BufSize, k \in 0..3 : copy(dst, src, n, k)

SpecCopy == InitCopy /\ [][NextCopy]_vars

\* Copies between the buffer and one host array, in between the operations
\* of the batcher: launches that pass every check, submit, sync, init and
\* the device.
NextBatchCopy ==
  \/ \E c \in Capacities : prickle_init(c, TRUE)
  \/ launch_kernel([simd |-> SupportedSimdWidth, maxthreads |-> MaxGroupSize], 1, 1, 1, "none")
  \/ submit_work
  \/ submit_scheduled
  \/ sync
  \/ sync_completed
  \/ device_schedule
  \/ device_execute
  \/ device_complete
  \/ \E dst \in {"hostB", "buf"}, src \in {"hostB", "buf"}, k \in 0..3 :
       copy(dst, src, BufSize, k)

SpecBatchCopy == Init /\ [][NextBatchCopy]_vars

\* The device makes progress on committed buffers, and a host thread whose
\* wait can return does return.
FairSpec ==
  /\ Spec
  /\ WF_vars(device_schedule)
  /\ WF_vars(device_execute)
  /\ WF_vars(device_complete)
  /\ WF_vars(submit_scheduled)
  /\ WF_vars(sync_completed)

\* ---- notions the properties are stated in -------------------------------
Range(f) == {f[i] : i \in DOMAIN f}
\* A command buffer is open from its creation until it is committed.
OpenBuffers == {c \in DOMAIN buffers : buffers[c].status = "NotEnqueued"}
\* An encoder is open from its creation until endEncoding.
OpenEncoders == {e \in DOMAIN encoders : ~encoders[e].ended}
\* The dispatches the queue holds: those of the committed command buffers.
Submitted == UNION {Range(buffers[queue[i]].cmds) : i \in DOMAIN queue}
\* The launches since the last submission: their dispatch is in no committed buffer.
Unsubmitted == (1..nlaunch) \ Submitted
\* Every kernel writes the number of its launch into one shared buffer.
SharedMarker == IF executed = <<>> THEN 0 ELSE executed[Len(executed)]
\* The host is between two operations.
Between == pc = "idle"
Returned(o) == pc = "idle" /\ op = o
\* The requested thread-group size of the last launch exceeds the kernel's maximum.
Oversized(r) == r # NoReq /\ r.tx * r.ty * r.tz > r.maxthreads
Context == <<device, cq, queue_cap, cb, ce, queue_size>>

\* ---- C1 -----------------------------------------------------------------
\* C1: between operations the pending count is the number of launches since
\* the last submission, and a launch commits a command buffer if and only if
\* it is the queue_cap-th launch since the last submission; when that launch
\* has returned the batcher is Idle with pending 0.
C1_PendingCountsLaunches ==
  (Between /\ device # NULL) =>
     /\ queue_size = Cardinality(Unsubmitted)
     /\ Unsubmitted # {} => (ce # NULL /\ cb \in OpenBuffers)
     /\ Unsubmitted = {} => ce = NULL
C1_LaunchSubmitsAtCapacity ==
  (nlaunch' = nlaunch + 1 /\ pc' # "exited") =>
     /\ (queue' # queue) <=> (Cardinality(Unsubmitted) + 1 = queue_cap)
     /\ queue' # queue => queue' = Append(queue, cb') /\ Unsubmitted' = {}
     /\ queue' = queue => Cardinality(Unsubmitted') = Cardinality(Unsubmitted) + 1
C1_BatchCapacity == [](C1_PendingCountsLaunches) /\ [][C1_LaunchSubmitsAtCapacity]_vars
\* The second launch of a batch of capacity 2 has submitted and returned.
C1_Witness ==
  /\ Returned("launch") /\ queue_cap = 2 /\ nlaunch = 2
  /\ queue_size = 0 /\ Len(queue) = 1 /\ Len(buffers[queue[1]].cmds) = 2

\* ---- C2 -----------------------------------------------------------------
\* C2: when sync has returned, the device has executed the dispatch of every
\* launch before it, those of earlier command buffers included.
C2_SyncCompletesAll == Returned("sync") => \A d \in 1..nlaunch : d \in Range(executed)
\* sync has returned after a launch dropped the handle of an earlier buffer.
C2_Witness ==
  /\ Returned("sync") /\ Len(queue) >= 2
  /\ \E c \in DOMAIN buffers : buffers[c].dropped = "launch" /\ buffers[c].cmds # <<>>

\* ---- C3 -----------------------------------------------------------------
\* C3: when sync has returned, no command buffer and no encoder is held and
\* the pending count is 0.
C3_SyncLeavesIdle == Returned("sync") => (cb = NULL /\ ce = NULL /\ queue_size = 0)
\* sync has returned after it flushed a partial batch.
C3_Witness ==
  /\ Returned("sync") /\ queue_cap = 2
  /\ \E c \in DOMAIN buffers : buffers[c].by = "sync" /\ Len(buffers[c].cmds) = 1

\* ---- C4 -----------------------------------------------------------------
\* C4: the device executes the dispatches in the order of their launches,
\* within and across command buffers, and after a sync the shared buffer
\* holds the marker of the last launch.
C4_ProgramOrder ==
  /\ \A i \in DOMAIN executed : executed[i] = i
  /\ (Returned("sync") /\ nlaunch >= 1) => SharedMarker = nlaunch
\* Two launches in different command buffers, then sync.
C4_Witness ==
  /\ Returned("sync") /\ nlaunch >= 2 /\ SharedMarker = nlaunch
  /\ \E i, j \in DOMAIN queue : i < j /\ buffers[queue[i]].cmds # <<>> /\ buffers[queue[j]].cmds # <<>>

\* ---- C5 -----------------------------------------------------------------
\* C5: a launch whose thread_x*thread_y*thread_z exceeds the kernel's maximum
\* thread-group size terminates the process; it records no dispatch, does
\* not increment the pending count and commits nothing.
C5_OversizedStep ==
  (nlaunch' = nlaunch + 1 /\ Oversized(req')) =>
     /\ pc' = "exited"
     /\ queue_size' = queue_size
     /\ queue' = queue
     /\ \A c \in DOMAIN buffers : buffers'[c].cmds = buffers[c].cmds /\ buffers'[c].status = buffers[c].status
     /\ \A c \in DOMAIN buffers' : nlaunch' \notin Range(buffers'[c].cmds)
     /\ executed' = executed
C5_GeometryRejection == [][C5_OversizedStep]_vars
\* An oversized launch was stopped by the assert while a batch was open.
C5_Witness ==
  /\ pc = "exited" /\ exit_msg = "Assertion failed" /\ Oversized(req)
  /\ queue_size = 1 /\ nlaunch = 2 /\ buffers[cb].cmds = <<1>>

\* ---- C6 -----------------------------------------------------------------
\* C6: an init call with the device already set, whatever the capacity
\* passed, changes nothing of the device context or of its command buffers.
C6_SecondInitStep ==
  (device # NULL /\ \E c \in Capacities, ok \in BOOLEAN : prickle_init(c, ok)) =>
     /\ UNCHANGED Context
     /\ UNCHANGED <<buffers, encoders, queue, executed, pc>>
C6_IdempotentInit == [][C6_SecondInitStep]_vars
\* A later init call has returned while a batch was open.
C6_Witness == Returned("init") /\ ce # NULL /\ queue_cap = 2 /\ queue_size = 1

\* ---- C7 -----------------------------------------------------------------
\* C7: between operations there is at most one open command buffer and at
\* most one open encoder, and an encoder is held if and only if a command
\* buffer is open; the held ones are the open ones.
C7_OneOpenPair ==
  Between =>
     /\ Cardinality(OpenBuffers) <= 1
     /\ Cardinality(OpenEncoders) <= 1
     /\ (ce # NULL) <=> (OpenBuffers # {})
     /\ (ce # NULL) <=> (OpenEncoders # {})
     /\ ce # NULL => (OpenEncoders = {ce} /\ OpenBuffers = {cb} /\ encoders[ce].cb = cb)
\* A batch is open after an earlier one was submitted.
C7_Witness == Between /\ ce # NULL /\ Len(queue) >= 1 /\ OpenBuffers = {cb}

\* ---- C8 -----------------------------------------------------------------
\* C8: after init with a positive capacity the pending count between
\* operations is at least 0 and less than the capacity.
C8_PendingInRange ==
  (Between /\ device # NULL /\ queue_cap >= 1) => (0 <= queue_size /\ queue_size < queue_cap)
\* The pending count is at its maximum after an earlier submission.
C8_Witness == Between /\ queue_cap = 2 /\ queue_size = 1 /\ Len(queue) >= 1

\* ---- C9 -----------------------------------------------------------------
\* C9: when a submit that found an encoder open returns, the encoding is
\* ended, the command buffer is committed to the queue and at least
\* scheduled, the encoder is released and the pending count is 0.
C9_SubmitReturnStep ==
  (pc = "wait_sched" /\ op = "submit" /\ pc' = "idle") =>
     /\ encoders'[ce].ended
     /\ encoders'[ce].releases = 1
     /\ ce' = NULL
     /\ queue_size' = 0
     /\ cb' = cb
     /\ cb \in Range(queue')
     /\ buffers'[cb].status \in {"Scheduled", "Completed"}
C9_SubmitFlushes == [][C9_SubmitReturnStep]_vars
\* submit has returned and the device has not finished the buffer.
C9_Witness ==
  /\ Returned("submit") /\ cb # NULL /\ buffers[cb].by = "submit"
  /\ buffers[cb].status = "Scheduled" /\ Range(buffers[cb].cmds) \cap Range(executed) = {}

\* ---- C10 ----------------------------------------------------------------
\* C10: a submit call that finds no encoder open changes nothing: no commit,
\* and cb, ce, the pending count and the capacity stay; so a submit right
\* after a submit commits nothing.
C10_NoEncoderSubmitStep ==
  (submit_work /\ (ce = NULL \/ op = "submit")) =>
     /\ UNCHANGED Context
     /\ UNCHANGED <<buffers, encoders, queue, executed, pc>>
C10_SubmitNoOp == [][C10_NoEncoderSubmitStep]_vars
\* submit has returned with the buffer of an automatic submission still held.
C10_Witness ==
  /\ Returned("submit") /\ ce = NULL /\ cb # NULL
  /\ buffers[cb].by = "launch" /\ Len(queue) = 1

\* ---- C11 ----------------------------------------------------------------
\* The encoders that recorded into command buffer c.
EncodersOf(c) == {e \in DOMAIN encoders : encoders[e].cb = c}
\* C11 as stated: between operations every committed command buffer and its
\* encoder have been released.
C11_ReleasedAtSubmission ==
  Between => \A c \in Range(queue) :
     /\ buffers[c].releases >= 1
     /\ \A e \in EncodersOf(c) : encoders[e].releases >= 1
\* C11 as the code has it: between operations the encoder of every committed
\* command buffer has been released; the committed buffer itself is unreleased
\* as long as cb holds it, and is released once when a launch replaces it or
\* when sync has waited for it.
C11_EncoderAtSubmissionBufferLater ==
  Between => \A c \in Range(queue) :
     /\ \A e \in EncodersOf(c) : encoders[e].releases = 1
     /\ c = cb => (buffers[c].releases = 0 /\ buffers[c].dropped = "none")
     /\ c # cb => (buffers[c].releases = 1 /\ buffers[c].dropped \in {"launch", "sync"})
\* An automatic submission has returned: encoder released, buffer still held.
C11_Witness ==
  /\ Returned("launch") /\ cb # NULL /\ cb \in Range(queue)
  /\ buffers[cb].by = "launch" /\ buffers[cb].releases = 0
  /\ \A e \in EncodersOf(cb) : encoders[e].releases = 1

\* ---- C12 ----------------------------------------------------------------
Count(seq, x) == Cardinality({i \in DOMAIN seq : seq[i] = x})
\* C12: no command buffer is committed twice; once a buffer is committed no
\* dispatch is recorded into it and no encoder is created on it; a launch
\* that finds nothing pending creates a fresh buffer and a fresh encoder.
C12_NoReuseStep ==
  /\ \A c \in DOMAIN buffers' : Count(queue', c) <= 1
  /\ \A c \in DOMAIN buffers :
       buffers[c].status # "NotEnqueued" =>
            /\ buffers'[c].cmds = buffers[c].cmds
            /\ \A e \in DOMAIN encoders' : encoders'[e].cb = c => e \in DOMAIN encoders
            /\ Count(queue', c) = Count(queue, c)
  /\ \A e \in DOMAIN encoders : encoders'[e].cb = encoders[e].cb
  /\ (nlaunch' = nlaunch + 1 /\ pc' # "exited" /\ Unsubmitted = {}) =>
       /\ Len(buffers') = Len(buffers) + 1
       /\ Len(encoders') = Len(encoders) + 1
       /\ nlaunch' \in Range(buffers'[Len(buffers')].cmds)
       /\ encoders'[Len(encoders')].cb = Len(buffers')
C12_NeverReused == [][C12_NoReuseStep]_vars
\* A launch after a submission has opened the second buffer and encoder.
C12_Witness ==
  /\ Returned("launch") /\ Len(queue) = 1 /\ queue[1] = 1
  /\ cb = 2 /\ ce = 2 /\ encoders[2].cb = 2 /\ buffers[2].cmds = <<nlaunch>>

\* ---- C14 ----------------------------------------------------------------
\* The diagnostics of the fatal errors that precede the thread-group check.
BeforeGroupCheck ==
  {"Failed to set up command buffer", "Failed to set up compute command encoder",
   "Error setting up compute pipeline state", "Expected SIMD width of 32"}
\* C14: a launch of a kernel whose lane width is not 32 terminates the
\* process without a dispatch, an increment of the pending count or a
\* commit, and the thread-group assert is never the error reported for it.
C14_LaneWidthStep ==
  (nlaunch' = nlaunch + 1 /\ req'.simd # SupportedSimdWidth) =>
     /\ pc' = "exited"
     /\ exit_msg' \in BeforeGroupCheck
     /\ queue_size' = queue_size
     /\ queue' = queue
     /\ \A c \in DOMAIN buffers : buffers'[c].cmds = buffers[c].cmds /\ buffers'[c].status = buffers[c].status
     /\ \A c \in DOMAIN buffers' : nlaunch' \notin Range(buffers'[c].cmds)
     /\ executed' = executed
C14_LaneWidthRejection == [][C14_LaneWidthStep]_vars
\* A launch that violates both checks has stopped with the lane-width error.
C14_Witness ==
  /\ pc = "exited" /\ exit_msg = "Expected SIMD width of 32"
  /\ req.simd # SupportedSimdWidth /\ Oversized(req)

\* ---- C17 ----------------------------------------------------------------
\* C17: between operations, after init, the encoder is held if and only if
\* the pending count is positive, and a held encoder comes with a held
\* command buffer that is not committed and a pending count below capacity.
C17_EncoderIffPending ==
  (Between /\ device # NULL /\ queue_cap >= 1) =>
     /\ (ce # NULL) <=> (queue_size > 0)
     /\ ce # NULL =>
          /\ cb # NULL
          /\ buffers[cb].status = "NotEnqueued"
          /\ cb \notin Range(queue)
          /\ 1 <= queue_size /\ queue_size < queue_cap
\* The second batch is open with one dispatch pending.
C17_Witness ==
  /\ Returned("launch") /\ ce # NULL /\ queue_size = 1 /\ cb = 2
  /\ buffers[cb].status = "NotEnqueued"

\* ---- C18 ----------------------------------------------------------------
\* C18: no command buffer or encoder is released twice; cb and ce never
\* point to a released object, so no status query, encoding, commit or wait
\* uses one; at most one command buffer is unreleased, and none after sync.
C18_ReleaseDiscipline ==
  /\ \A c \in DOMAIN buffers : buffers[c].releases <= 1
  /\ \A e \in DOMAIN encoders : encoders[e].releases <= 1
  /\ cb # NULL => buffers[cb].releases = 0
  /\ ce # NULL => (encoders[ce].releases = 0 /\ buffers[encoders[ce].cb].releases = 0)
  /\ Cardinality({c \in DOMAIN buffers : buffers[c].releases = 0}) <= 1
  /\ Returned("sync") => \A c \in DOMAIN buffers : buffers[c].releases = 1
\* sync has returned after one buffer was released by a launch and one by sync.
C18_Witness ==
  /\ Returned("sync")
  /\ \E c, d \in DOMAIN buffers : buffers[c].dropped = "launch" /\ buffers[d].dropped = "sync"
  /\ \A e \in DOMAIN encoders : encoders[e].releases = 1

\* ---- C19 ----------------------------------------------------------------
\* C19: a command buffer committed by the automatic submission of a launch
\* holds exactly queue_cap dispatches, one committed by submit or sync holds
\* between 1 and queue_cap - 1; no empty buffer is committed.
C19_CommittedBatchSizes ==
  (device # NULL /\ queue_cap >= 1) => \A c \in Range(queue) :
     /\ buffers[c].by \in {"launch", "submit", "sync"}
     /\ 1 <= Len(buffers[c].cmds) /\ Len(buffers[c].cmds) <= queue_cap
     /\ buffers[c].by = "launch" => Len(buffers[c].cmds) = queue_cap
     /\ buffers[c].by \in {"submit", "sync"} => Len(buffers[c].cmds) <= queue_cap - 1
\* A full batch committed by launch and a partial one committed by submit.
C19_Witness ==
  /\ queue_cap = 2 /\ Len(queue) = 2
  /\ buffers[queue[1]].by = "launch" /\ Len(buffers[queue[1]].cmds) = 2
  /\ buffers[queue[2]].by = "submit" /\ Len(buffers[queue[2]].cmds) = 1

\* ---- C16 ----------------------------------------------------------------
\* C16: whenever sync is in waitUntilCompleted the held command buffer has
\* been committed, and, the device completing every committed buffer, every
\* sync call returns.
C16_WaitsOnCommitted ==
  pc = "wait_done" =>
     /\ cb # NULL
     /\ cb \in Range(queue)
     /\ buffers[cb].status \in {"Committed", "Scheduled", "Completed"}
C16_InSync == op = "sync" /\ pc \in {"wait_sched", "wait_done"}
C16_SyncReturns == [](C16_WaitsOnCommitted) /\ (C16_InSync ~> Returned("sync"))
\* sync is blocked on a committed buffer none of whose dispatches has run.
C16_Witness ==
  /\ pc = "wait_done" /\ buffers[cb].status = "Scheduled"
  /\ buffers[cb].by = "sync" /\ Range(buffers[cb].cmds) \cap Range(executed) = {}

\* ---- C13 ----------------------------------------------------------------
\* C13: a copy of BufSize bytes with mode 1 from a host array into the
\* buffer leaves the buffer's contents equal to the array, and a copy with
\* mode 2 of the same bytes right after it leaves the destination host array
\* byte-identical to the original.
C13_RoundTrip ==
  /\ trip.phase = "in" => mem["dev"] = trip.data
  /\ trip.phase = "out" => mem[trip.host] = trip.data
\* A round trip from hostA through the buffer to hostB with two different bytes.
C13_Witness ==
  /\ trip.phase = "out" /\ trip.host = "hostB"
  /\ trip.data[1] = 1 /\ trip.data[2] = 0 /\ mem["hostA"] = trip.data

\* ---- C15 ----------------------------------------------------------------
\* C15: a copy step changes nothing of the batcher, the queue or the device's
\* progress, and a copy out of the buffer can be made between any two
\* operations, whatever the device still has to execute.
C15_CopyStep ==
  (\E dst \in Pointers, src \in Pointers, n \in 0..BufSize, k \in 0..3 : copy(dst, src, n, k)) =>
     /\ UNCHANGED Context
     /\ UNCHANGED <<buffers, encoders, queue, executed, pc, exit_msg, nlaunch>>
C15_NoWait == Between => ENABLED copy("hostB", "buf", BufSize, 2)
C15_CopyIsHostSide == [](C15_NoWait) /\ [][C15_CopyStep]_vars
\* A copy out of the buffer returned the marker of launch 1 while the
\* committed dispatch of launch 2 had not run.
C15_Witness ==
  /\ Returned("copy") /\ nlaunch = 2 /\ 2 \in Submitted /\ executed = <<1>>
  /\ mem["hostB"][1] = 1 /\ mem["dev"][1] = 1

TypeOK ==
  /\ device \in {NULL, 1}
  /\ cq \in {NULL, 1}
  /\ cb \in 0..Len(buffers)
  /\ ce \in 0..Len(encoders)
  /\ queue_cap \in 0..MaxCap
  /\ queue_size \in 0..MaxCap
  /\ pc \in {"idle", "wait_sched", "wait_done", "exited"}
  /\ op \in {"none", "init", "launch", "submit", "sync", "copy"}
  /\ mem \in [Regions -> [1..BufSize -> Nat]]
  /\ nlaunch \in 0..MaxLaunches
====
